---------------------------- MODULE Spec2Model ----------------------------
(***************************************************************************)
(* A model of the Streamlit dashboard page src/pages/03_added.py (one run  *)
(* of main() from widget state to the footer) and of the performance loop  *)
(* of the page fragment "src/pages/추가된 게시판.py".                      *)
(*                                                                         *)
(* Numbers.  The page computes in IEEE-754 doubles (numpy float64).  A     *)
(* double is modelled bit for bit as a record [k, sg, m, e]: k = "fin" for *)
(* the value sg * m * 2^e with a 53-bit significand m, or k = "nan",       *)
(* "inf", "-inf" for the values float64 division by zero produces.  Every  *)
(* quotient, product and difference is rounded to the nearest double, ties *)
(* to even.  Closes are whole numbers.  Only the standard deviation is     *)
(* kept exact: the square root of a rational, rounded once when formatted. *)
(*                                                                         *)
(* Time.  A datetime is an integer count of ticks, TicksPerDay ticks to a  *)
(* day, tick 0 of a day being midnight; the catalogue's dates are          *)
(* midnights and datetime.now() may fall on any tick.                      *)
(***************************************************************************)
EXTENDS Integers, Sequences, FiniteSets, TLC

(***************************************************************************)
(* Bounds of the model.                                                    *)
(***************************************************************************)
\* how many entries of TOP_10_COMPANIES the multiselect offers in the model
NumCompanies == 2
\* how many entries of ALL_WEATHER_ASSETS the model loads
NumAssets == 2
\* bars per fetched series in a run of main()
RunBars == 1
\* bars per series, and the largest close, when one loop body is applied alone
MaxBars == 3
MaxClose == 3
\* ticks per day (resolution of the time of day of datetime.now())
TicksPerDay == 2
\* catalogue size and date range when add_crisis_regions is applied alone
MaxWindows == 2
MaxDate == 3
\* largest clock value when a period chain is applied alone
MaxNow == 3

(***************************************************************************)
(* Configuration tables.  A Python dict iterates in insertion order, so a  *)
(* dict is a sequence of entries with distinct keys.                       *)
(***************************************************************************)
TOP_10_COMPANIES ==
    << [name |-> "Apple", ticker |-> "AAPL"],
       [name |-> "Microsoft", ticker |-> "MSFT"],
       [name |-> "Alphabet", ticker |-> "GOOGL"],
       [name |-> "Amazon", ticker |-> "AMZN"],
       [name |-> "NVIDIA", ticker |-> "NVDA"],
       [name |-> "Meta", ticker |-> "META"],
       [name |-> "Berkshire Hathaway", ticker |-> "BRK-B"],
       [name |-> "Taiwan Semiconductor", ticker |-> "TSM"],
       [name |-> "Tesla", ticker |-> "TSLA"],
       [name |-> "Broadcom", ticker |-> "AVGO"] >>

ALL_WEATHER_ASSETS ==
    << [name |-> "S&P 500", ticker |-> "SPY"],
       [name |-> "Long Treasury 20y+", ticker |-> "TLT"],
       [name |-> "Mid Treasury 7-10y", ticker |-> "IEF"],
       [name |-> "Gold", ticker |-> "GLD"],
       [name |-> "Commodities", ticker |-> "DBC"] >>

Min2(a, b) == IF a <= b THEN a ELSE b

\* the dict entries the model works with
Offered(table, k) == SubSeq(table, 1, Min2(k, Len(table)))

IsLeap(y) == (y % 4 = 0) /\ ((y % 100 # 0) \/ (y % 400 = 0))

DaysInMonth(y, m) ==
    CASE m = 2 -> IF IsLeap(y) THEN 29 ELSE 28
      [] m \in {4, 6, 9, 11} -> 30
      [] OTHER -> 31

RECURSIVE DaysBeforeMonth(_, _)
DaysBeforeMonth(y, m) ==
    IF m = 1 THEN 0 ELSE DaysBeforeMonth(y, m - 1) + DaysInMonth(y, m - 1)

\* datetime(y, m, d): midnight of the proleptic Gregorian day, in ticks
datetime(y, m, d) ==
    LET y1 == y - 1
        ordinal == y1 * 365 + (y1 \div 4) - (y1 \div 100) + (y1 \div 400)
                   + DaysBeforeMonth(y, m) + d
    IN  ordinal * TicksPerDay

\* timedelta(days=n), in ticks
timedelta(days) == days * TicksPerDay

CRISIS_PERIODS ==
    << [name |-> "COVID-19 pandemic shock",
        start |-> datetime(2020, 2, 19), end |-> datetime(2020, 4, 1)],
       [name |-> "2022 inflation / rate hikes",
        start |-> datetime(2022, 1, 1), end |-> datetime(2022, 12, 31)],
       [name |-> "Silicon Valley Bank failure",
        start |-> datetime(2023, 3, 8), end |-> datetime(2023, 3, 20)] >>

(***************************************************************************)
(* Natural numbers of any size, for the significands of doubles: a         *)
(* sequence of digits in base Base, least significant first, with no       *)
(* leading zero digit; the empty sequence is 0.                            *)
(***************************************************************************)
Abs(i) == IF i < 0 THEN -i ELSE i

RECURSIVE Gcd(_, _)
Gcd(a, b) == IF b = 0 THEN a ELSE Gcd(b, a % b)

Base == 2^15

RECURSIVE BFromInt(_)
BFromInt(n) == IF n = 0 THEN << >> ELSE <<n % Base>> \o BFromInt(n \div Base)

RECURSIVE BToInt(_)
BToInt(x) == IF Len(x) = 0 THEN 0 ELSE x[1] + Base * BToInt(Tail(x))

RECURSIVE BTrim(_)
BTrim(x) ==
    IF Len(x) = 0 \/ x[Len(x)] # 0 THEN x ELSE BTrim(SubSeq(x, 1, Len(x) - 1))

\* x * m + c for 0 <= m, c < Base
RECURSIVE BMulAdd(_, _, _)
BMulAdd(x, m, c) ==
    IF Len(x) = 0 THEN BFromInt(c)
    ELSE LET t == x[1] * m + c
         IN  <<t % Base>> \o BMulAdd(Tail(x), m, t \div Base)

BMulSmall(x, m) == BTrim(BMulAdd(x, m, 0))

\* quotient and remainder of x by d, 0 < d < 2 * Base
RECURSIVE BDivRem(_, _)
BDivRem(x, d) ==
    IF Len(x) = 0 THEN [q |-> << >>, r |-> 0]
    ELSE LET hi == BDivRem(Tail(x), d)
             t == hi.r * Base + x[1]
         IN  [q |-> <<t \div d>> \o hi.q, r |-> t % d]

BDivSmall(x, d) == LET qr == BDivRem(x, d) IN [q |-> BTrim(qr.q), r |-> qr.r]

RECURSIVE BAddC(_, _, _)
BAddC(x, y, c) ==
    IF Len(x) = 0 /\ Len(y) = 0 THEN BFromInt(c)
    ELSE LET a == IF Len(x) = 0 THEN 0 ELSE x[1]
             b == IF Len(y) = 0 THEN 0 ELSE y[1]
             t == a + b + c
         IN  <<t % Base>>
             \o BAddC(IF Len(x) = 0 THEN x ELSE Tail(x),
                      IF Len(y) = 0 THEN y ELSE Tail(y), t \div Base)

BAdd(x, y) == BAddC(x, y, 0)

\* x - y - c for x >= y + c
RECURSIVE BSubC(_, _, _)
BSubC(x, y, c) ==
    IF Len(x) = 0 THEN << >>
    ELSE LET b == IF Len(y) = 0 THEN 0 ELSE y[1]
             t == x[1] - b - c
         IN  <<t % Base>>
             \o BSubC(Tail(x), IF Len(y) = 0 THEN y ELSE Tail(y),
                      IF t < 0 THEN 1 ELSE 0)

BSub(x, y) == BTrim(BSubC(x, y, 0))

\* -1, 0 or 1 as x is below, equal to or above y
RECURSIVE BCmp(_, _)
BCmp(x, y) ==
    IF Len(x) # Len(y) THEN (IF Len(x) < Len(y) THEN -1 ELSE 1)
    ELSE IF Len(x) = 0 THEN 0
    ELSE IF x[Len(x)] # y[Len(y)] THEN (IF x[Len(x)] < y[Len(y)] THEN -1 ELSE 1)
    ELSE BCmp(SubSeq(x, 1, Len(x) - 1), SubSeq(y, 1, Len(y) - 1))

\* x * 2^k: whole digits are shifted in, the rest is a small factor
BShl(x, k) ==
    IF Len(x) = 0 THEN x
    ELSE [j \in 1..(k \div 15) |-> 0] \o BMulSmall(x, 2^(k % 15))

\* x \div 2^k: whole digits are dropped, the rest is a small divisor
BShr(x, k) ==
    IF Len(x) <= k \div 15 THEN << >>
    ELSE BDivSmall(SubSeq(x, (k \div 15) + 1, Len(x)), 2^(k % 15)).q

RECURSIVE BitLen(_)
BitLen(n) == IF n = 0 THEN 0 ELSE 1 + BitLen(n \div 2)

BBitLen(x) == IF Len(x) = 0 THEN 0 ELSE 15 * (Len(x) - 1) + BitLen(x[Len(x)])

BIsOdd(x) == Len(x) > 0 /\ x[1] % 2 = 1

\* x / 2^t (t > 0) rounded to the nearest natural number, ties to even;
\* sticky tells that the exact value lies strictly above x
BRoundShr(x, t, sticky) ==
    LET q == BShr(x, t)
        c == BCmp(BSub(x, BShl(q, t)), BShl(<<1>>, t - 1))
        up == c > 0 \/ (c = 0 /\ (sticky \/ BIsOdd(q)))
    IN  IF up THEN BAdd(q, <<1>>) ELSE q

(***************************************************************************)
(* float64 arithmetic.  A finite double is sg * m * 2^e with sg = 1 or -1 *)
(* and a significand m of exactly SignificandBits bits (m empty and e = 0  *)
(* for zero); every operation rounds its exact result to the nearest such  *)
(* value, ties to even, as IEEE-754 does.                                  *)
(***************************************************************************)
SignificandBits == 53

NaN == [k |-> "nan", sg |-> 1, m |-> << >>, e |-> 0]
Inf == [k |-> "inf", sg |-> 1, m |-> << >>, e |-> 0]
NegInf == [k |-> "-inf", sg |-> -1, m |-> << >>, e |-> 0]
Zero == [k |-> "fin", sg |-> 1, m |-> << >>, e |-> 0]

\* the double nearest to sg * p * 2^e (to a value just above it when sticky)
Round(sg, p, e, sticky) ==
    LET n == BBitLen(p)
        t == n - SignificandBits
    IN  IF n = 0 THEN Zero
        ELSE IF t <= 0
        THEN [k |-> "fin", sg |-> sg, m |-> BShl(p, -t), e |-> e + t]
        ELSE LET q == BRoundShr(p, t, sticky)
             IN  IF BBitLen(q) > SignificandBits
                 THEN [k |-> "fin", sg |-> sg, m |-> BShr(q, 1), e |-> e + t + 1]
                 ELSE [k |-> "fin", sg |-> sg, m |-> q, e |-> e + t]

\* float(i)
Num(i) == Round(IF i < 0 THEN -1 ELSE 1, BFromInt(Abs(i)), 0, FALSE)

\* the magnitude of a finite whole-numbered double, as an integer
Whole(x) == IF x.e >= 0 THEN BToInt(BShl(x.m, x.e)) ELSE BToInt(BShr(x.m, -x.e))

\* the rational n/d (d # 0) in lowest terms
Frac(n, d) ==
    LET g == Gcd(Abs(n), Abs(d))
        s == IF d < 0 THEN -1 ELSE 1
    IN  [k |-> "fin", n |-> (s * n) \div g, d |-> (s * d) \div g]

\* -1, 0 or 1; defined for every value but NaN
Sign(x) ==
    CASE x.k = "inf" -> 1
      [] x.k = "-inf" -> -1
      [] OTHER -> IF Len(x.m) = 0 THEN 0 ELSE x.sg

Signed(s) == IF s > 0 THEN Inf ELSE NegInf

\* x / y; a finite divisor is a whole number below 2 * Base, as the closes
\* of the model and their differences are
FDiv(x, y) ==
    CASE x.k = "nan" \/ y.k = "nan" -> NaN
      [] x.k # "fin" /\ y.k # "fin" -> NaN
      [] x.k # "fin" -> Signed(Sign(x) * (IF Sign(y) < 0 THEN -1 ELSE 1))
      [] y.k # "fin" -> Zero
      [] Sign(y) = 0 -> IF Sign(x) = 0 THEN NaN ELSE Signed(Sign(x))
      [] OTHER -> LET qr == BDivSmall(BShl(x.m, 80), Whole(y))
                  IN  Round(x.sg * y.sg, qr.q, x.e - 80, qr.r # 0)

\* x * y; a finite y is a whole number below Base, as the factor 100 is
FMul(x, y) ==
    CASE x.k = "nan" \/ y.k = "nan" -> NaN
      [] x.k # "fin" \/ y.k # "fin" ->
            IF Sign(x) * Sign(y) = 0 THEN NaN ELSE Signed(Sign(x) * Sign(y))
      [] OTHER -> Round(x.sg * y.sg, BMulSmall(x.m, Whole(y)), x.e, FALSE)

\* the exact difference x - y of two finite doubles: sg * m * 2^e, unrounded
ExactSub(x, y) ==
    LET e == Min2(x.e, y.e)
        a == BShl(x.m, x.e - e)
        b == BShl(y.m, y.e - e)
        c == BCmp(a, b)
    IN  IF x.sg # y.sg THEN [sg |-> x.sg, m |-> BAdd(a, b), e |-> e]
        ELSE IF c >= 0 THEN [sg |-> x.sg, m |-> BSub(a, b), e |-> e]
        ELSE [sg |-> -x.sg, m |-> BSub(b, a), e |-> e]

\* x - y
FSub(x, y) ==
    CASE x.k = "nan" \/ y.k = "nan" -> NaN
      [] x.k # "fin" /\ y.k # "fin" -> IF x.k = y.k THEN NaN ELSE x
      [] x.k # "fin" -> x
      [] y.k # "fin" -> Signed(-Sign(y))
      [] OTHER -> LET d == ExactSub(x, y) IN Round(d.sg, d.m, d.e, FALSE)


(***************************************************************************)
(* What get_stock_data returns is a record: is = "None" when the fetch     *)
(* raised, is = "DataFrame" otherwise, with Close the column of the rows'  *)
(* closes (Open, High, Low and Volume are only handed to the plotting      *)
(* library).                                                               *)
(***************************************************************************)
None == "None"
NoneData == [is |-> "None", Close |-> << >>]
DataFrame(closes) == [is |-> "DataFrame", Close |-> closes]

RECURSIVE SeqsUpTo(_, _)
SeqsUpTo(S, n) ==
    IF n = 0 THEN {<< >>}
    ELSE LET shorter == SeqsUpTo(S, n - 1)
         IN  shorter \cup {Append(q, x) : q \in {r \in shorter : Len(r) = n - 1}, x \in S}

\* data.empty
empty(data) == Len(data.Close) = 0

\* the test without its check of data.empty
has_data_not_none(data) == data # NoneData

\* lines 186 and 373, and line 25 of the board page:
\* data is not None and not data.empty
has_data(data) == data # NoneData /\ ~empty(data)

iloc_first(col) == col[1]
iloc_last(col) == col[Len(col)]

RECURSIVE SeqMax(_)
SeqMax(col) ==
    IF Len(col) = 1 THEN col[1]
    ELSE LET m == SeqMax(Tail(col)) IN IF col[1] >= m THEN col[1] ELSE m

RECURSIVE SeqMin(_)
SeqMin(col) ==
    IF Len(col) = 1 THEN col[1]
    ELSE LET m == SeqMin(Tail(col)) IN IF col[1] <= m THEN col[1] ELSE m

RECURSIVE SeqSum(_)
SeqSum(col) == IF Len(col) = 0 THEN 0 ELSE col[1] + SeqSum(Tail(col))

\* the sum of (x - mean)^2 over the column, mean a rational mn/md, as a rational
RECURSIVE SumSqDev(_, _, _)
SumSqDev(col, mn, md) ==
    IF Len(col) = 0 THEN Frac(0, 1)
    ELSE LET dev == Frac(col[1] * md - mn, md)
             rest == SumSqDev(Tail(col), mn, md)
             sq == Frac(dev.n * dev.n, dev.d * dev.d)
         IN  Frac(sq.n * rest.d + rest.n * sq.d, sq.d * rest.d)

\* pandas Series.std(): ddof defaults to 1, the sample standard deviation, which
\* is NaN for fewer than two values.  The root is kept symbolic: k = "sqrt"
\* stands for the square root of n/d.
std(col) ==
    IF Len(col) < 2 THEN NaN
    ELSE LET ss == SumSqDev(col, SeqSum(col), Len(col))
             var == Frac(ss.n, ss.d * (Len(col) - 1))
         IN  [k |-> "sqrt", n |-> var.n, d |-> var.d]

\* h + 1/2 lies above the square root of n/d
AboveSqrt(n, d, h) == (2 * h + 1) * (2 * h + 1) * d > 4 * n

RECURSIVE SqrtCeiling(_, _, _)
SqrtCeiling(n, d, h) == IF AboveSqrt(n, d, h) THEN h ELSE SqrtCeiling(n, d, 2 * h)

RECURSIVE SqrtBisect(_, _, _, _)
SqrtBisect(n, d, lo, hi) ==
    IF lo = hi THEN lo
    ELSE LET mid == (lo + hi) \div 2
         IN  IF AboveSqrt(n, d, mid) THEN SqrtBisect(n, d, lo, mid)
             ELSE SqrtBisect(n, d, mid + 1, hi)

\* the integer nearest to the square root of n/d (n >= 0, d > 0)
RoundSqrt(n, d) == SqrtBisect(n, d, 0, SqrtCeiling(n, d, 1))

\* format(x, ".2f"): the decimal with two places, held as its count of
\* hundredths h, or the text nan / inf / -inf
fmt2f(x) ==
    CASE x.k = "fin" ->
            LET p == BMulSmall(x.m, 100)
                a == IF x.e >= 0 THEN BShl(p, x.e) ELSE BRoundShr(p, -x.e, FALSE)
            IN  [k |-> "fin", h |-> x.sg * BToInt(a)]
      [] x.k = "sqrt" -> [k |-> "fin", h |-> RoundSqrt(10000 * x.n, x.d)]
      [] OTHER -> [k |-> x.k, h |-> 0]

\* the row with the return taken relative to the end price
performance_row_over_end(company, data) ==
    LET start_price == Num(iloc_first(data.Close))
        end_price == Num(iloc_last(data.Close))
        total_return == FMul(FDiv(FSub(end_price, start_price), end_price), Num(100))
    IN  [name |-> company,
         start_price |-> fmt2f(start_price),
         end_price |-> fmt2f(end_price),
         total_return |-> fmt2f(total_return),
         max_price |-> fmt2f(Num(SeqMax(data.Close))),
         min_price |-> fmt2f(Num(SeqMin(data.Close))),
         std_dev |-> fmt2f(std(data.Close))]

\* lines 278-280: the return of a series over its first close, in percent
company_total_return(data) ==
    LET start_price == Num(iloc_first(data.Close))
        end_price == Num(iloc_last(data.Close))
    IN  FMul(FDiv(FSub(end_price, start_price), start_price), Num(100))

\* lines 278-294: one row of the companies' performance table
performance_row(company, data) ==
    LET start_price == Num(iloc_first(data.Close))
        end_price == Num(iloc_last(data.Close))
        total_return == company_total_return(data)
        max_price == Num(SeqMax(data.Close))
        min_price == Num(SeqMin(data.Close))
        std_dev == std(data.Close)
    IN  [name |-> company,
         start_price |-> fmt2f(start_price),
         end_price |-> fmt2f(end_price),
         total_return |-> fmt2f(total_return),
         max_price |-> fmt2f(max_price),
         min_price |-> fmt2f(min_price),
         std_dev |-> fmt2f(std_dev)]

\* lines 275-294: the loop over stock_data.items()
RECURSIVE performance_rows(_)
performance_rows(items) ==
    IF Len(items) = 0 THEN << >>
    ELSE IF Len(items[1].data.Close) > 0
         THEN <<performance_row(items[1].name, items[1].data)>>
              \o performance_rows(Tail(items))
         ELSE performance_rows(Tail(items))

\* the board page, lines 32-43: one row of its performance table
board_row(label, data) ==
    LET start_price == Num(iloc_first(data.Close))
        end_price == Num(iloc_last(data.Close))
        total_return == FMul(FDiv(FSub(end_price, start_price), start_price), Num(100))
        volatility == std(data.Close)
    IN  [name |-> label,
         start_price |-> fmt2f(start_price),
         end_price |-> fmt2f(end_price),
         total_return |-> fmt2f(total_return),
         volatility |-> fmt2f(volatility)]

\* the column scaled by the last close instead of the first
normalized_close_by_last(data) ==
    LET initial_price == Num(iloc_last(data.Close))
    IN  [j \in 1..Len(data.Close) |->
           FMul(FDiv(Num(data.Close[j]), initial_price), Num(100))]

\* lines 376-377: the Normalized Close column
normalized_close(data) ==
    LET initial_price == Num(iloc_first(data.Close))
    IN  [j \in 1..Len(data.Close) |->
           FMul(FDiv(Num(data.Close[j]), initial_price), Num(100))]

\* the last normalized close alone, the first one not taken off
aw_total_return_of_current(normalized) == iloc_last(normalized)

\* lines 426-428: the return of an asset, in points of its normalized close
aw_total_return(normalized) ==
    LET initial_normalized_price == iloc_first(normalized)
        current_normalized_price == iloc_last(normalized)
    IN  FSub(current_normalized_price, initial_normalized_price)

\* lines 426-440: one row of the all-weather performance table
aw_performance_row(asset_name, data, normalized) ==
    LET initial_normalized_price == iloc_first(normalized)
        current_normalized_price == iloc_last(normalized)
        total_return == aw_total_return(normalized)
        initial_actual_price == Num(iloc_first(data.Close))
        current_actual_price == Num(iloc_last(data.Close))
    IN  [name |-> asset_name,
         start_price |-> fmt2f(initial_actual_price),
         end_price |-> fmt2f(current_actual_price),
         normalized_start |-> fmt2f(initial_normalized_price),
         normalized_end |-> fmt2f(current_normalized_price),
         total_return |-> fmt2f(total_return)]

\* lines 423-440: the loop over aw_data.items()
RECURSIVE aw_performance_rows(_)
aw_performance_rows(items) ==
    IF Len(items) = 0 THEN << >>
    ELSE IF Len(items[1].data.Close) > 0
         THEN <<aw_performance_row(items[1].name, items[1].data, items[1].normalized)>>
              \o aw_performance_rows(Tail(items))
         ELSE aw_performance_rows(Tail(items))

(***************************************************************************)
(* Crisis overlay and period chains.                                       *)
(***************************************************************************)
\* the overlap test with strict comparisons turned around: touching ends missed
RECURSIVE crisis_vrects_open(_, _, _)
crisis_vrects_open(catalogue, start_date, end_date) ==
    IF Len(catalogue) = 0 THEN << >>
    ELSE LET rest == crisis_vrects_open(Tail(catalogue), start_date, end_date)
         IN  IF ~(catalogue[1].end <= start_date \/ catalogue[1].start >= end_date)
             THEN <<[x0 |-> catalogue[1].start, x1 |-> catalogue[1].end,
                     annotation_text |-> catalogue[1].name]>> \o rest
             ELSE rest

\* the vrects collected newest first
RECURSIVE crisis_vrects_reversed(_, _, _)
crisis_vrects_reversed(catalogue, start_date, end_date) ==
    IF Len(catalogue) = 0 THEN << >>
    ELSE LET rest == crisis_vrects_reversed(Tail(catalogue), start_date, end_date)
         IN  IF ~(catalogue[1].end < start_date \/ catalogue[1].start > end_date)
             THEN rest \o <<[x0 |-> catalogue[1].start, x1 |-> catalogue[1].end,
                             annotation_text |-> catalogue[1].name]>>
             ELSE rest

\* lines 91-108: the vrects add_crisis_regions adds for `catalogue`, in the
\* order of its items()
RECURSIVE crisis_vrects(_, _, _)
crisis_vrects(catalogue, start_date, end_date) ==
    IF Len(catalogue) = 0 THEN << >>
    ELSE LET crisis_start == catalogue[1].start
             crisis_end == catalogue[1].end
             rest == crisis_vrects(Tail(catalogue), start_date, end_date)
         IN  IF ~(crisis_end < start_date \/ crisis_start > end_date)
             THEN <<[x0 |-> crisis_start, x1 |-> crisis_end,
                     annotation_text |-> catalogue[1].name]>> \o rest
             ELSE rest

\* lines 89-108; the catalogue it reads is the global CRISIS_PERIODS
add_crisis_regions(catalogue, fig, start_date, end_date) ==
    [fig EXCEPT !.shapes = @ \o crisis_vrects(catalogue, start_date, end_date)]

\* lines 141-146 and 341-346: label and value of each selectbox option
period_options == << [label |-> "1 year", value |-> "1y"],
                     [label |-> "2 years", value |-> "2y"],
                     [label |-> "3 years", value |-> "3y"],
                     [label |-> "5 years", value |-> "5y"] >>

aw_period_options == << [label |-> "1 year", value |-> "1y"],
                        [label |-> "3 years", value |-> "3y"],
                        [label |-> "5 years", value |-> "5y"],
                        [label |-> "10 years", value |-> "10y"] >>

Labels(options) == {options[j].label : j \in 1..Len(options)}

\* options[label]
Lookup(options, label) ==
    options[CHOOSE j \in 1..Len(options) : options[j].label = label].value

\* the chain without its branch for "2y"
plot_start_date_for_no_2y(selected_period_value, end_date) ==
    IF selected_period_value = "1y" THEN end_date - timedelta(365)
    ELSE IF selected_period_value = "3y" THEN end_date - timedelta(3 * 365)
    ELSE IF selected_period_value = "5y" THEN end_date - timedelta(5 * 365)
    ELSE end_date - timedelta(3 * 365)

\* lines 169-178: the companies section's chain
plot_start_date_for(selected_period_value, end_date) ==
    IF selected_period_value = "1y" THEN end_date - timedelta(365)
    ELSE IF selected_period_value = "2y" THEN end_date - timedelta(2 * 365)
    ELSE IF selected_period_value = "3y" THEN end_date - timedelta(3 * 365)
    ELSE IF selected_period_value = "5y" THEN end_date - timedelta(5 * 365)
    ELSE end_date - timedelta(3 * 365)

\* lines 357-366: the all-weather section's chain
plot_start_date_aw_for(selected_aw_period_value, end_date_aw) ==
    IF selected_aw_period_value = "1y" THEN end_date_aw - timedelta(365)
    ELSE IF selected_aw_period_value = "3y" THEN end_date_aw - timedelta(3 * 365)
    ELSE IF selected_aw_period_value = "5y" THEN end_date_aw - timedelta(5 * 365)
    ELSE IF selected_aw_period_value = "10y" THEN end_date_aw - timedelta(10 * 365)
    ELSE end_date_aw - timedelta(3 * 365)

(***************************************************************************)
(* State of one run of main().                                             *)
(***************************************************************************)
VARIABLES
    pc,                      \* where the script is
    now,                     \* what datetime.now() returns during the run
    section,                 \* the sidebar radio
    selected_companies,      \* the multiselect, in selection order
    selected_period_name,    \* the companies section's selectbox
    chart_type,              \* the chart type radio
    selected_aw_period_name, \* the all-weather section's selectbox
    selected_period_value, end_date, plot_start_date,
    selected_aw_period_value, end_date_aw, plot_start_date_aw,
    i,                       \* position of the loading loop
    fetched,                 \* what get_stock_data returned, per name, in call order
    stock_data, company_info, fig, performance_data, fig_volume,
    aw_data, fig_aw, aw_performance_data,
    screen,                  \* the st.* elements rendered so far, in order
    exception,               \* the exception that ended the run, if any
    arg, out                 \* input and result of a function applied alone

widgets == <<section, selected_companies, selected_period_name, chart_type,
             selected_aw_period_name>>
resolved == <<selected_period_value, end_date, plot_start_date>>
resolved_aw == <<selected_aw_period_value, end_date_aw, plot_start_date_aw>>
loaded == <<i, fetched, stock_data, company_info, aw_data>>
top_outputs == <<fig, performance_data, fig_volume>>
aw_outputs == <<fig_aw, aw_performance_data>>
alone == <<arg, out>>
vars == <<pc, now, widgets, resolved, resolved_aw, loaded, top_outputs,
          aw_outputs, screen, exception, alone>>

TopSection == "Top companies"
AwSection == "All weather assets"
LineChartType == "line chart"
CandlestickChartType == "candlestick chart"

Range(q) == {q[j] : j \in 1..Len(q)}
Names(items) == {items[j].name : j \in 1..Len(items)}
NameSeq(items) == [j \in 1..Len(items) |-> items[j].name]

\* the lists a multiselect over `names` can return: distinct options, any order
Selections(names) ==
    {q \in SeqsUpTo(names, Cardinality(names)) : Cardinality(Range(q)) = Len(q)}

\* the clock readings of the model: midnight of the first crisis day, the
\* midnight and the next tick one year after the first crisis ended, and a
\* time after every crisis
NowValues ==
    { datetime(2020, 2, 19),
      datetime(2020, 4, 1) + timedelta(365),
      datetime(2020, 4, 1) + timedelta(365) + 1,
      datetime(2026, 11, 1) + 1 }

\* the closes of the bars fetched in a run: a zero price and a positive one
RunCloses == {0, 100}

\* what get_stock_data can return in a run: None, an empty frame, or bars
FetchOutcomes ==
    {NoneData} \cup {DataFrame(c) : c \in SeqsUpTo(RunCloses, RunBars)}

\* nothing has been applied alone
NoResult == [fn |-> "none", value |-> << >>]

NoFig == [kind |-> "none", traces |-> << >>, shapes |-> << >>]

Idle ==
    /\ selected_period_value = None /\ end_date = 0 /\ plot_start_date = 0
    /\ selected_aw_period_value = None /\ end_date_aw = 0 /\ plot_start_date_aw = 0
    /\ i = 0 /\ fetched = << >> /\ stock_data = << >> /\ company_info = << >>
    /\ aw_data = << >>
    /\ fig = NoFig /\ performance_data = << >> /\ fig_volume = NoFig
    /\ fig_aw = NoFig /\ aw_performance_data = << >>
    /\ screen = << >> /\ exception = None

Init ==
    /\ pc = "main"
    /\ now \in NowValues
    /\ section \in {TopSection, AwSection}
    /\ IF section = TopSection
       THEN /\ selected_companies \in Selections(Names(Offered(TOP_10_COMPANIES, NumCompanies)))
            /\ selected_period_name \in Labels(period_options)
            /\ chart_type \in {LineChartType, CandlestickChartType}
            /\ selected_aw_period_name = None
       ELSE /\ selected_companies = << >>
            /\ selected_period_name = None
            /\ chart_type = None
            /\ selected_aw_period_name \in Labels(aw_period_options)
    /\ Idle
    /\ arg = None /\ out = NoResult

\* get_stock_data, lines 51-60: a fetch that raised shows st.error and gives None
FetchMessages(name, data) ==
    IF data = NoneData THEN <<[el |-> "error", about |-> name]>> ELSE << >>

(***************************************************************************)
(* The companies section, lines 124-330.                                   *)
(***************************************************************************)
\* lines 136-138
NoCompanySelected ==
    /\ pc = "main" /\ section = TopSection /\ selected_companies = << >>
    /\ screen' = Append(screen, [el |-> "warning", about |-> "select a company"])
    /\ pc' = "returned"
    /\ UNCHANGED <<now, widgets, resolved, resolved_aw, loaded, top_outputs,
                   aw_outputs, exception, alone>>

\* lines 140-178
ResolvePeriod ==
    /\ pc = "main" /\ section = TopSection /\ selected_companies # << >>
    /\ selected_period_value' = Lookup(period_options, selected_period_name)
    /\ end_date' = now
    /\ plot_start_date' = plot_start_date_for(selected_period_value', end_date')
    /\ i' = 1
    /\ pc' = "load"
    /\ UNCHANGED <<now, widgets, resolved_aw, fetched, stock_data, company_info,
                   aw_data, top_outputs, aw_outputs, screen, exception, alone>>

\* lines 181-190: one iteration of the loading loop
LoadCompany ==
    /\ pc = "load" /\ i <= Len(selected_companies)
    /\ \E data \in FetchOutcomes :
         LET company == selected_companies[i] IN
         /\ fetched' = Append(fetched, [name |-> company, data |-> data])
         /\ IF has_data(data)
            THEN /\ stock_data' = Append(stock_data, [name |-> company, data |-> data])
                 /\ company_info' = Append(company_info, company)
                 /\ screen' = screen
            ELSE /\ UNCHANGED <<stock_data, company_info>>
                 /\ screen' = screen \o FetchMessages(company, data)
                                 \o <<[el |-> "warning", about |-> company]>>
    /\ i' = i + 1
    /\ UNCHANGED <<pc, now, widgets, resolved, resolved_aw, aw_data, top_outputs,
                   aw_outputs, exception, alone>>

\* lines 192-194
NoStockData ==
    /\ pc = "load" /\ i > Len(selected_companies) /\ stock_data = << >>
    /\ screen' = Append(screen, [el |-> "error", about |-> "no data"])
    /\ pc' = "returned"
    /\ UNCHANGED <<now, widgets, resolved, resolved_aw, loaded, top_outputs,
                   aw_outputs, exception, alone>>

\* lines 196-209: one metric per selected company that has info
RECURSIVE Metrics(_, _)
Metrics(selected, info) ==
    IF Len(selected) = 0 THEN << >>
    ELSE (IF selected[1] \in Range(info)
          THEN <<[el |-> "metric", about |-> selected[1]]>> ELSE << >>)
         \o Metrics(Tail(selected), info)

CompanyInfo ==
    /\ pc = "load" /\ i > Len(selected_companies) /\ stock_data # << >>
    /\ screen' = screen \o Metrics(selected_companies, company_info)
    /\ pc' = "chart"
    /\ UNCHANGED <<now, widgets, resolved, resolved_aw, loaded, top_outputs,
                   aw_outputs, exception, alone>>

\* lines 214-242 and 271
LineChart ==
    /\ pc = "chart" /\ chart_type = LineChartType
    /\ fig' = add_crisis_regions(CRISIS_PERIODS,
                  [kind |-> "line", traces |-> NameSeq(stock_data), shapes |-> << >>],
                  plot_start_date, end_date)
    /\ screen' = Append(screen, [el |-> "plotly_chart", about |-> "fig"])
    /\ pc' = "table"
    /\ UNCHANGED <<now, widgets, resolved, resolved_aw, loaded, performance_data,
                   fig_volume, aw_outputs, exception, alone>>

\* line 248: stock_data[company] raises KeyError for a company that was skipped
CandlestickFound(company) == company \in Names(stock_data)

\* lines 244-271
CandlestickChart ==
    /\ pc = "chart" /\ chart_type = CandlestickChartType
    /\ LET note == IF Len(selected_companies) > 1
                   THEN <<[el |-> "info", about |-> "first company only"]>> ELSE << >>
           company == selected_companies[1]
       IN  IF CandlestickFound(company)
           THEN /\ fig' = add_crisis_regions(CRISIS_PERIODS,
                              [kind |-> "candlestick", traces |-> <<company>>,
                               shapes |-> << >>],
                              plot_start_date, end_date)
                /\ screen' = screen \o note
                                \o <<[el |-> "plotly_chart", about |-> "fig"]>>
                /\ pc' = "table"
                /\ exception' = exception
           ELSE /\ fig' = fig
                /\ screen' = screen \o note
                /\ pc' = "aborted"
                /\ exception' = "KeyError"
    /\ UNCHANGED <<now, widgets, resolved, resolved_aw, loaded, performance_data,
                   fig_volume, aw_outputs, alone>>

\* lines 273-298
PerformanceTable ==
    /\ pc = "table"
    /\ performance_data' = performance_rows(stock_data)
    /\ screen' = IF performance_data' # << >>
                 THEN Append(screen, [el |-> "dataframe", about |-> "df_performance"])
                 ELSE screen
    /\ pc' = "volume"
    /\ UNCHANGED <<now, widgets, resolved, resolved_aw, loaded, fig, fig_volume,
                   aw_outputs, exception, alone>>

\* lines 300-330
VolumeChart ==
    /\ pc = "volume"
    /\ fig_volume' = add_crisis_regions(CRISIS_PERIODS,
                         [kind |-> "volume", traces |-> NameSeq(stock_data),
                          shapes |-> << >>],
                         plot_start_date, end_date)
    /\ screen' = Append(screen, [el |-> "plotly_chart", about |-> "fig_volume"])
    /\ pc' = "footer"
    /\ UNCHANGED <<now, widgets, resolved, resolved_aw, loaded, fig, performance_data,
                   aw_outputs, exception, alone>>

\* lines 447-460
Footer ==
    /\ pc = "footer"
    /\ screen' = Append(screen, [el |-> "info", about |-> "footer"])
    /\ pc' = "done"
    /\ UNCHANGED <<now, widgets, resolved, resolved_aw, loaded, top_outputs,
                   aw_outputs, exception, alone>>

(***************************************************************************)
(* The all-weather section, lines 335-444.                                 *)
(***************************************************************************)
Assets == Offered(ALL_WEATHER_ASSETS, NumAssets)

\* lines 340-366
ResolvePeriodAw ==
    /\ pc = "main" /\ section = AwSection
    /\ selected_aw_period_value' = Lookup(aw_period_options, selected_aw_period_name)
    /\ end_date_aw' = now
    /\ plot_start_date_aw' =
           plot_start_date_aw_for(selected_aw_period_value', end_date_aw')
    /\ i' = 1
    /\ pc' = "load_aw"
    /\ UNCHANGED <<now, widgets, resolved, fetched, stock_data, company_info,
                   aw_data, top_outputs, aw_outputs, screen, exception, alone>>

\* lines 371-380: one iteration of the loading loop
LoadAsset ==
    /\ pc = "load_aw" /\ i <= Len(Assets)
    /\ \E data \in FetchOutcomes :
         LET asset_name == Assets[i].name IN
         /\ fetched' = Append(fetched, [name |-> asset_name, data |-> data])
         /\ IF has_data(data)
            THEN /\ aw_data' = Append(aw_data,
                                  [name |-> asset_name, data |-> data,
                                   normalized |-> normalized_close(data)])
                 /\ screen' = screen
            ELSE /\ aw_data' = aw_data
                 /\ screen' = screen \o FetchMessages(asset_name, data)
                                 \o <<[el |-> "warning", about |-> asset_name]>>
    /\ i' = i + 1
    /\ UNCHANGED <<pc, now, widgets, resolved, resolved_aw, stock_data, company_info,
                   top_outputs, aw_outputs, exception, alone>>

\* lines 382-384
NoAwData ==
    /\ pc = "load_aw" /\ i > Len(Assets) /\ aw_data = << >>
    /\ screen' = Append(screen, [el |-> "error", about |-> "no data"])
    /\ pc' = "returned"
    /\ UNCHANGED <<now, widgets, resolved, resolved_aw, loaded, top_outputs,
                   aw_outputs, exception, alone>>

\* lines 386-419
AwChart ==
    /\ pc = "load_aw" /\ i > Len(Assets) /\ aw_data # << >>
    /\ fig_aw' = add_crisis_regions(CRISIS_PERIODS,
                     [kind |-> "normalized", traces |-> NameSeq(aw_data),
                      shapes |-> << >>],
                     plot_start_date_aw, end_date_aw)
    /\ screen' = Append(screen, [el |-> "plotly_chart", about |-> "fig_aw"])
    /\ pc' = "table_aw"
    /\ UNCHANGED <<now, widgets, resolved, resolved_aw, loaded, top_outputs,
                   aw_performance_data, exception, alone>>

\* lines 421-444
AwPerformanceTable ==
    /\ pc = "table_aw"
    /\ aw_performance_data' = aw_performance_rows(aw_data)
    /\ screen' = IF aw_performance_data' # << >>
                 THEN Append(screen, [el |-> "dataframe", about |-> "df_aw_performance"])
                 ELSE screen
    /\ pc' = "footer"
    /\ UNCHANGED <<now, widgets, resolved, resolved_aw, loaded, top_outputs,
                   fig_aw, exception, alone>>

Next ==
    \/ NoCompanySelected
    \/ ResolvePeriod
    \/ LoadCompany
    \/ NoStockData
    \/ CompanyInfo
    \/ LineChart
    \/ CandlestickChart
    \/ PerformanceTable
    \/ VolumeChart
    \/ ResolvePeriodAw
    \/ LoadAsset
    \/ NoAwData
    \/ AwChart
    \/ AwPerformanceTable
    \/ Footer

Spec == Init /\ [][Next]_vars

(***************************************************************************)
(* The loop bodies applied alone to one fetched series: arg is what        *)
(* get_stock_data returned, out the rows or the column computed from it.   *)
(***************************************************************************)
\* the series of the specification's scenarios, and one whose return of
\* 0.625 percent lies midway between two hundredths
ScenarioCloses == {<<100, 110, 90>>, <<50, 110, 90>>, <<160, 161>>}

SeriesInputs ==
    {NoneData} \cup {DataFrame(c) : c \in SeqsUpTo(0..MaxClose, MaxBars) \cup ScenarioCloses}

\* no run of main() is under way
NoRun ==
    /\ now = 0 /\ section = None /\ selected_companies = << >>
    /\ selected_period_name = None /\ chart_type = None
    /\ selected_aw_period_name = None
    /\ Idle

run == <<now, widgets, resolved, resolved_aw, loaded, top_outputs, aw_outputs,
         screen, exception>>

InitSeries ==
    /\ pc = "apply"
    /\ arg \in SeriesInputs
    /\ out = NoResult
    /\ NoRun

\* lines 275-294 on a stock_data that holds this one frame
ApplyPerformanceRows ==
    /\ pc = "apply" /\ arg # NoneData
    /\ out' = [fn |-> "performance_rows",
               value |-> performance_rows(<<[name |-> "Apple", data |-> arg]>>)]
    /\ pc' = "applied"
    /\ UNCHANGED <<run, arg>>

\* the board page, lines 23-43, for one label
ApplyBoardRows ==
    /\ pc = "apply"
    /\ out' = [fn |-> "board_rows",
               value |-> IF has_data(arg)
                         THEN <<board_row("TLT", arg)>> ELSE << >>]
    /\ pc' = "applied"
    /\ UNCHANGED <<run, arg>>

\* lines 372-380 for one asset: the Normalized Close column, or the warning
ApplyNormalize ==
    /\ pc = "apply"
    /\ out' = IF has_data(arg)
              THEN [fn |-> "normalized_close", value |-> normalized_close(arg)]
              ELSE [fn |-> "warning", value |-> << >>]
    /\ pc' = "applied"
    /\ UNCHANGED <<run, arg>>

\* lines 372-378 and 423-440 for one asset
ApplyAwRows ==
    /\ pc = "apply" /\ has_data(arg)
    /\ out' = [fn |-> "aw_performance_rows",
               value |-> aw_performance_rows(
                             <<[name |-> "SPY", data |-> arg,
                                normalized |-> normalized_close(arg)]>>)]
    /\ pc' = "applied"
    /\ UNCHANGED <<run, arg>>

\* lines 376-377 with 426-428, and lines 278-280, for the same series: the
\* return the all-weather table computes and the one the companies table does
ApplyTotalReturns ==
    /\ pc = "apply" /\ has_data(arg)
    /\ out' = [fn |-> "total_returns",
               value |-> <<aw_total_return(normalized_close(arg)),
                           company_total_return(arg)>>]
    /\ pc' = "applied"
    /\ UNCHANGED <<run, arg>>

NextSeries ==
    \/ ApplyPerformanceRows
    \/ ApplyBoardRows
    \/ ApplyNormalize
    \/ ApplyAwRows
    \/ ApplyTotalReturns

SpecSeries == InitSeries /\ [][NextSeries]_vars

(***************************************************************************)
(* add_crisis_regions applied alone to any catalogue and display range.    *)
(***************************************************************************)
WindowNames == <<"A", "B", "C", "D", "E", "F">>

Windows == {w \in [start : 0..MaxDate, end : 0..MaxDate] : w.start <= w.end}

\* a dict of up to MaxWindows windows: the j-th key is WindowNames[j]
Catalogues ==
    {[j \in 1..Len(q) |-> [name |-> WindowNames[j], start |-> q[j].start, end |-> q[j].end]] :
        q \in SeqsUpTo(Windows, Min2(MaxWindows, Len(WindowNames)))}

\* the first window of CRISIS_PERIODS against a display range that ends on the
\* day the window starts
ScenarioTouching ==
    [catalogue |-> SubSeq(CRISIS_PERIODS, 1, 1),
     start_date |-> datetime(2020, 1, 1), end_date |-> datetime(2020, 2, 19)]

InitCrisis ==
    /\ pc = "apply"
    /\ arg \in [catalogue : Catalogues, start_date : 0..MaxDate, end_date : 0..MaxDate]
               \cup {ScenarioTouching}
    /\ out = NoResult
    /\ NoRun

ApplyCrisisRegions ==
    /\ pc = "apply"
    /\ out' = [fn |-> "add_crisis_regions",
               value |-> add_crisis_regions(arg.catalogue,
                             [kind |-> "line", traces |-> << >>, shapes |-> << >>],
                             arg.start_date, arg.end_date).shapes]
    /\ pc' = "applied"
    /\ UNCHANGED <<run, arg>>

SpecCrisis == InitCrisis /\ [][ApplyCrisisRegions]_vars

(***************************************************************************)
(* The two period chains applied alone to any period code.                 *)
(***************************************************************************)
\* the codes the chains name, and other periods get_stock_data accepts
PeriodCodes == {"1y", "2y", "3y", "5y", "10y", "6mo", "ytd", "max"}

InitPeriod ==
    /\ pc = "apply"
    /\ arg \in [chain : {"companies", "all_weather"}, code : PeriodCodes,
                now : {datetime(2026, 11, 1) + t : t \in 0..MaxNow}]
    /\ out = NoResult
    /\ NoRun

\* lines 168-178
ApplyCompaniesChain ==
    /\ pc = "apply" /\ arg.chain = "companies"
    /\ out' = [fn |-> "range",
               value |-> <<plot_start_date_for(arg.code, arg.now), arg.now>>]
    /\ pc' = "applied"
    /\ UNCHANGED <<run, arg>>

\* lines 356-366
ApplyAwChain ==
    /\ pc = "apply" /\ arg.chain = "all_weather"
    /\ out' = [fn |-> "range",
               value |-> <<plot_start_date_aw_for(arg.code, arg.now), arg.now>>]
    /\ pc' = "applied"
    /\ UNCHANGED <<run, arg>>

NextPeriod ==
    \/ ApplyCompaniesChain
    \/ ApplyAwChain

SpecPeriod == InitPeriod /\ [][NextPeriod]_vars

(***************************************************************************)
(* Properties.                                                             *)
(***************************************************************************)
HadData(f) == f.data # NoneData /\ Len(f.data.Close) > 0
Shown(el, about) == \E j \in 1..Len(screen) : screen[j] = [el |-> el, about |-> about]
Hundredths(v) == [k |-> "fin", h |-> 100 * v]
\* h is an integer nearest to n/d (d > 0)
Nearest(h, n, d) == 2 * Abs(h * d - n) <= d

\* C1: in the companies section, whenever at least one selected symbol has
\* data the run never aborts, every symbol without data is skipped with a
\* warning, and a run that ends has rendered the price chart, the performance
\* table and the volume chart.
C1_RunNeverAborts ==
    (section = TopSection /\ \E j \in 1..Len(fetched) : HadData(fetched[j])) =>
        /\ pc # "aborted"
        /\ \A j \in 1..Len(fetched) :
              ~HadData(fetched[j]) =>
                  /\ Shown("warning", fetched[j].name)
                  /\ fetched[j].name \notin Names(stock_data)
        /\ pc = "done" =>
              /\ Shown("plotly_chart", "fig")
              /\ Shown("dataframe", "df_performance")
              /\ Shown("plotly_chart", "fig_volume")

\* the claim's overlap test
Overlaps(w, displayStart, displayEnd) ==
    ~(w.end < displayStart \/ w.start > displayEnd)

Annotated(w) ==
    \E k \in 1..Len(out.value) : out.value[k].annotation_text = w.name

\* C2: a window of the catalogue is annotated if and only if
\* NOT (window.end < displayStart OR window.start > displayEnd); the window of
\* 2020-02-19..2020-04-01 is annotated for the range 2020-01-01..2020-02-19.
C2_AnnotatedIffOverlapping ==
    pc = "applied" =>
        /\ \A j \in 1..Len(arg.catalogue) :
              Annotated(arg.catalogue[j])
                  <=> Overlaps(arg.catalogue[j], arg.start_date, arg.end_date)
        /\ arg = ScenarioTouching => Len(out.value) = 1

\* a window that starts exactly where the display range ends was annotated
C2_Witness ==
    /\ pc = "applied"
    /\ arg.start_date < arg.end_date
    /\ \E j \in 1..Len(arg.catalogue) :
          /\ arg.catalogue[j].start = arg.end_date
          /\ arg.catalogue[j].end > arg.end_date
          /\ Annotated(arg.catalogue[j])

\* the distance between two natural numbers of any size
BAbsDiff(a, b) == IF BCmp(a, b) >= 0 THEN BSub(a, b) ELSE BSub(b, a)

\* the finite double x >= 0 lies within 2^-bits * p/q of the real number p/q
\* (p >= 0, 0 < q < Base)
WithinRel(x, p, q, bits) ==
    LET a == BShl(BMulSmall(x.m, q), IF x.e > 0 THEN x.e ELSE 0)
        b == BShl(BFromInt(p), IF x.e < 0 THEN -x.e ELSE 0)
    IN  BCmp(BShl(BAbsDiff(a, b), bits), b) <= 0

\* C3, as the specification states it: for a non-empty series with a non-zero
\* first close, every bar's normalized close is 100 * close / firstClose (the
\* double nearest to that quotient), and closes 50, 110, 90 give 100, 220, 180.
C3_NormalizedIsExactQuotient ==
    (pc = "applied" /\ out.fn = "normalized_close" /\ arg.Close[1] # 0) =>
        /\ \A j \in 1..Len(arg.Close) :
              out.value[j] = FDiv(Num(100 * arg.Close[j]), Num(arg.Close[1]))
        /\ arg.Close = <<50, 110, 90>> => out.value = <<Num(100), Num(220), Num(180)>>

\* C3: for a non-empty series with a non-zero first close, every bar's
\* normalized close is (close / firstClose) * 100 as float64 computes it: the
\* first is exactly 100, every bar lies within a relative error of 2^-51 of
\* 100 * close / firstClose, and closes 50, 110, 90 give 100, a double just
\* above 220 that is shown as 220.00, and 180.
C3_NormalizedIsHundredTimesRatio ==
    (pc = "applied" /\ out.fn = "normalized_close" /\ arg.Close[1] # 0) =>
        /\ Len(out.value) = Len(arg.Close)
        /\ \A j \in 1..Len(arg.Close) :
              /\ out.value[j].k = "fin"
              /\ out.value[j].sg = 1
              /\ WithinRel(out.value[j], 100 * arg.Close[j], arg.Close[1], 51)
        /\ out.value[1] = Num(100)
        /\ arg.Close = <<50, 110, 90>> =>
              /\ out.value[3] = Num(180)
              /\ out.value[2] # Num(220)
              /\ FSub(out.value[2], Num(220)).sg = 1
              /\ fmt2f(out.value[2]) = Hundredths(220)

C3_Witness ==
    /\ pc = "applied" /\ out.fn = "normalized_close"
    /\ arg.Close = <<50, 110, 90>>
    /\ out.value[1] = Num(100)
    /\ fmt2f(out.value[2]) = Hundredths(220)

\* C4: for a non-empty series with a non-zero first close the summary row
\* shows, to two decimals, the first close, the last close, the return
\* (end - start) / start * 100 and (companies table) the largest and the
\* smallest close; closes 100, 110, 90 give 100, 90, -10, 110, 90.
C4_SummaryRow ==
    (pc = "applied" /\ out.fn \in {"performance_rows", "board_rows"}
        /\ has_data(arg) /\ arg.Close[1] # 0) =>
        LET closes == arg.Close
            first == closes[1]
            last == closes[Len(closes)]
        IN  /\ Len(out.value) = 1
            /\ out.value[1].start_price = Hundredths(first)
            /\ out.value[1].end_price = Hundredths(last)
            /\ out.value[1].total_return.k = "fin"
            /\ Nearest(out.value[1].total_return.h, 10000 * (last - first), first)
            /\ out.fn = "performance_rows" =>
                  /\ \E j \in 1..Len(closes) : out.value[1].max_price = Hundredths(closes[j])
                  /\ \E j \in 1..Len(closes) : out.value[1].min_price = Hundredths(closes[j])
                  /\ \A j \in 1..Len(closes) :
                        /\ out.value[1].max_price.h >= 100 * closes[j]
                        /\ out.value[1].min_price.h <= 100 * closes[j]
            /\ closes = <<100, 110, 90>> =>
                  /\ out.value[1].total_return = Hundredths(-10)
                  /\ out.fn = "performance_rows" =>
                        /\ out.value[1].max_price = Hundredths(110)
                        /\ out.value[1].min_price = Hundredths(90)

C4_Witness ==
    /\ pc = "applied" /\ out.fn = "performance_rows"
    /\ arg.Close = <<100, 110, 90>>
    /\ out.value[1].total_return = Hundredths(-10)

\* C5: for a series of one bar the summary row has totalReturnPct = 0,
\* volatility = 0 (the population standard deviation) and
\* maxPrice = minPrice = startPrice = endPrice.  (Stated for a non-zero price:
\* a zero start price is the summarizer's division-by-zero case.)
C5_SinglePointSummary ==
    (pc = "applied" /\ out.fn \in {"performance_rows", "board_rows"}
        /\ has_data(arg) /\ Len(arg.Close) = 1 /\ arg.Close[1] # 0) =>
        /\ Len(out.value) = 1
        /\ out.value[1].total_return = Hundredths(0)
        /\ out.value[1].end_price = out.value[1].start_price
        /\ out.fn = "performance_rows" =>
              /\ out.value[1].std_dev = Hundredths(0)
              /\ out.value[1].max_price = out.value[1].start_price
              /\ out.value[1].min_price = out.value[1].start_price
        /\ out.fn = "board_rows" => out.value[1].volatility = Hundredths(0)

RecognizedCodes == {"1y", "2y", "3y", "5y", "10y"}

\* the day offset the claim gives each period code
OffsetDays(code) ==
    CASE code = "1y" -> 365
      [] code = "2y" -> 730
      [] code = "3y" -> 1095
      [] code = "5y" -> 1825
      [] code = "10y" -> 3650

\* C6: once a run has resolved its period code, the display range ends at the
\* current time and starts the code's day offset (365, 730, 1095, 1825, 3650
\* for 1y, 2y, 3y, 5y, 10y) before it.
C6_RangeIsNowMinusOffset ==
    /\ (section = TopSection /\ pc \notin {"main", "returned"}) =>
          selected_period_value # None
    /\ selected_period_value # None =>
          /\ selected_period_value \in RecognizedCodes
          /\ end_date = now
          /\ plot_start_date = now - OffsetDays(selected_period_value) * TicksPerDay
    /\ (section = AwSection /\ pc # "main") => selected_aw_period_value # None
    /\ selected_aw_period_value # None =>
          /\ selected_aw_period_value \in RecognizedCodes
          /\ end_date_aw = now
          /\ plot_start_date_aw = now - OffsetDays(selected_aw_period_value) * TicksPerDay

C6_Witness ==
    /\ pc = "done" /\ selected_period_value = "2y"
    /\ plot_start_date = now - 730 * TicksPerDay

C8_ZeroBaseIsSkipped ==
    section = AwSection =>
        \A j \in 1..Len(fetched) :
            (HadData(fetched[j]) /\ fetched[j].data.Close[1] = 0) =>
                /\ fetched[j].name \notin Names(aw_data)
                /\ Shown("warning", fetched[j].name)

C10_OverlappingInCatalogueOrder ==
    pc = "applied" =>
        LET cat == arg.catalogue
            shapes == out.value
            Index(name) == CHOOSE j \in 1..Len(cat) : cat[j].name = name
        IN  /\ out.fn = "add_crisis_regions"
            /\ \A k \in 1..Len(shapes) :
                  \E j \in 1..Len(cat) :
                      /\ shapes[k] = [x0 |-> cat[j].start, x1 |-> cat[j].end,
                                      annotation_text |-> cat[j].name]
                      /\ Overlaps(cat[j], arg.start_date, arg.end_date)
            /\ \A k1, k2 \in 1..Len(shapes) :
                  k1 < k2 => Index(shapes[k1].annotation_text)
                                 < Index(shapes[k2].annotation_text)
            /\ \A j \in 1..Len(cat) :
                  Overlaps(cat[j], arg.start_date, arg.end_date) =>
                      \E k \in 1..Len(shapes) : shapes[k].annotation_text = cat[j].name
            /\ (\A j \in 1..Len(cat) : ~Overlaps(cat[j], arg.start_date, arg.end_date))
                  => shapes = << >>

\* two windows, the later one inserted first, were both added, in that order
C10_Witness ==
    /\ pc = "applied"
    /\ Len(arg.catalogue) = 2 /\ Len(out.value) = 2
    /\ arg.catalogue[1].start > arg.catalogue[2].end
    /\ out.value[1].annotation_text = arg.catalogue[1].name

\* the two total returns of a series were computed and its first close is not 0
BothReturns == pc = "applied" /\ out.fn = "total_returns" /\ arg.Close[1] # 0

\* C11, as the specification states it: for every non-empty series with a
\* non-zero first close, the total return the all-weather table reports (last
\* normalized close minus first normalized close) equals the summarizer's
\* (endPrice - startPrice) / startPrice * 100, as the tables show them.
C11_ReturnsAreEqual ==
    BothReturns => fmt2f(out.value[1]) = fmt2f(out.value[2])

\* C11: for every non-empty series with a non-zero first close, the
\* all-weather total return (last normalized close minus first normalized
\* close) and the summarizer's (endPrice - startPrice) / startPrice * 100
\* agree up to float64 rounding: they differ by at most
\* 2^-50 * 100 * max(endPrice, startPrice) / startPrice, and the two-decimal
\* values the tables show differ by at most 0.01.
C11_ReturnsAgreeUpToRounding ==
    BothReturns =>
        LET first == arg.Close[1]
            last == arg.Close[Len(arg.Close)]
            larger == IF last > first THEN last ELSE first
            diff == ExactSub(out.value[1], out.value[2])
        IN  /\ out.value[1].k = "fin" /\ out.value[2].k = "fin"
            /\ BCmp(BShl(BMulSmall(diff.m, first),
                         50 + (IF diff.e > 0 THEN diff.e ELSE 0)),
                    BShl(BFromInt(100 * larger),
                         IF diff.e < 0 THEN -diff.e ELSE 0)) <= 0
            /\ Abs(fmt2f(out.value[1]).h - fmt2f(out.value[2]).h) <= 1

\* closes 160, 161: the all-weather return is shown as 0.63 and the
\* summarizer's, exactly 0.625, as 0.62
C11_Witness ==
    /\ BothReturns
    /\ arg.Close = <<160, 161>>
    /\ out.value[1] # out.value[2]
    /\ fmt2f(out.value[1]) = [k |-> "fin", h |-> 63]
    /\ fmt2f(out.value[2]) = [k |-> "fin", h |-> 62]

=============================================================================
